---- MODULE Spec2Model ----
(***************************************************************************)
(* Model of power_cost.py: the per-day price fetcher with its on-disk      *)
(* cache (fetch_electricity_cost) and the UTC-day reconciler               *)
(* (fetch_electricity_cost_utc).                                           *)
(*                                                                         *)
(* Time is counted in seconds since 2024-01-01T00:00:00Z.  A calendar date *)
(* is its day number in 2024 (0 = 2024-01-01, 90 = 2024-03-31, 300 =       *)
(* 2024-10-27).  An ISO-8601 timestamp string with a UTC offset is the     *)
(* record [wall, off]: the wall-clock reading (seconds since               *)
(* 2024-01-01T00:00:00 on that clock) and the offset in seconds.           *)
(***************************************************************************)
EXTENDS Integers, Sequences, FiniteSets, TLC

VARIABLES
  cache,   \* the cache directory: file path -> decoded JSON content
  trunc,   \* the paths opened for writing whose content is not yet dumped
  last,    \* what the last completed call (of the sequential callers) did
  calls,   \* the number of completed calls (of the sequential callers)
  proc     \* the concurrent callers: where each stands in its call

vars == <<cache, trunc, last, calls, proc>>

-----------------------------------------------------------------------------
(* Bounds of the model *)

\* number of sequential calls explored by Spec
MaxCalls == 2
\* UTC dates 0..MaxUtcDay are requested in Spec
MaxUtcDay == 0
\* UTC dates 0..MaxDay (all of 2024) are requested in SpecYear
MaxDay == 365
\* number of concurrent callers in SpecConc
NumProcs == 2

-----------------------------------------------------------------------------
(* Units and the Europe/Stockholm zone *)

Hour == 60 * 60

\* timedelta(days=1)
Day == 24 * Hour

\* 2024-03-31T01:00:00Z: CET (+01:00) -> CEST (+02:00)
DstStart == 90 * Day + Hour
\* 2024-10-27T01:00:00Z: CEST (+02:00) -> CET (+01:00)
DstEnd == 300 * Day + Hour

\* pytz.timezone("Europe/Stockholm"): the offset in force at the instant t
UtcOffset(t) == IF DstStart <= t /\ t < DstEnd THEN 2 * Hour ELSE Hour

\* x.astimezone(stockholm_tz).date()
LocalDate(t) == (t + UtcOffset(t)) \div Day

\* parser.parse(s).astimezone(pytz.utc): the instant the string denotes
ParseUtc(ts) == ts.wall - ts.off

\* x.isoformat() of a UTC datetime: "...+00:00"
IsoFormat(t) == [wall |-> t, off |-> 0]

-----------------------------------------------------------------------------
(* The upstream service: what a GET may answer *)

PriceArea == {"SE1", "SE2", "SE3", "SE4"}

\* the areas the model's callers ask for
Areas == {"SE3", "SE4"}

\* the instant at which local date d begins in Stockholm
LocalMidnight(d) ==
  IF UtcOffset(d * Day - 2 * Hour) = 2 * Hour THEN d * Day - 2 * Hour
                                              ELSE d * Day - Hour

\* the ISO-8601 string upstream writes for the instant t (local offset)
Stamp(t) == [wall |-> t + UtcOffset(t), off |-> UtcOffset(t)]

HoursOfLocalDay(d) == (LocalMidnight(d + 1) - LocalMidnight(d)) \div Hour

\* one JSON object of the response body
Item(d, k, shift) ==
  [SEK_per_kWh |-> 1000 + 30 * (d % 5) + k,
   EUR_per_kWh |-> 100 + k,
   EXR         |-> 11,
   time_start  |-> Stamp(LocalMidnight(d) + (k - 1) * Hour + shift),
   time_end    |-> Stamp(LocalMidnight(d) + k * Hour + shift)]

\* a response body for local date d: hourly intervals covering the local day,
\* displaced by shift seconds (shift = 0: the contiguous hourly cover)
MakeBody(d, shift) == [k \in 1..HoursOfLocalDay(d) |-> Item(d, k, shift)]

Shifts == {0, -1}

\* every body upstream may send, computed once
BodyTable == [d \in 0..(MaxDay + 2) |-> [s \in Shifts |-> MakeBody(d, s)]]

Body(d, shift) == BodyTable[d][shift]

StatusCodes == {200, 204, 404}

Responses(d) ==
  {[status_code |-> 200, body |-> Body(d, s)] : s \in Shifts}
  \cup {[status_code |-> c, body |-> <<>>] : c \in StatusCodes \ {200}}

-----------------------------------------------------------------------------
(* fetch_electricity_cost *)

\* variant: the area is left out of the file name
CachePathNoArea(date, area) == <<"cache", date, "SE4">>

\* os.path.join("cache", year, month, f"{day}_{area.name}.json")
CachePath(date, area) == <<"cache", date, area>>

\* f"https://www.elprisetjustnu.se/api/v1/prices/{year}/{month}-{day}_{area.name}.json"
Url(date, area) == <<"prices", date, area>>

\* ElectricityCost(**item)
ElectricityCost(item) ==
  [SEK_per_kWh |-> item.SEK_per_kWh,
   EUR_per_kWh |-> item.EUR_per_kWh,
   EXR         |-> item.EXR,
   time_start  |-> item.time_start,
   time_end    |-> item.time_end]

\* [ElectricityCost(**item) for item in data]
Decode(data) == [i \in DOMAIN data |-> ElectricityCost(data[i])]

\* variant: the cache is never consulted
ExistsNever(c, path) == FALSE

\* os.path.exists(cache_path)
Exists(c, path) == path \in DOMAIN c

\* os.makedirs(...); open(cache_path, 'w'); json.dump(data, f)
WriteFile(c, path, data) ==
  [k \in DOMAIN c \cup {path} |-> IF k = path THEN data ELSE c[k]]

\* the cache-hit branch
FetchHit(c, date, area) ==
  [arg |-> date, raised |-> FALSE, status |-> 0,
   value  |-> Decode(c[CachePath(date, area)]),
   cache  |-> c, reqs |-> <<>>, writes |-> <<>>, got |-> <<>>]

\* the branch for status 200
FetchOk(c, date, area, resp) ==
  [arg |-> date, raised |-> FALSE, status |-> 0,
   value  |-> Decode(resp.body),
   cache  |-> WriteFile(c, CachePath(date, area), resp.body),
   reqs   |-> <<Url(date, area)>>,
   writes |-> <<CachePath(date, area)>>,
   got    |-> <<resp>>]

\* variant: the failed attempt leaves an empty cache file behind
FetchFailLeavesFile(c, date, area, resp) ==
  [arg |-> date, raised |-> TRUE, status |-> resp.status_code,
   value  |-> <<>>,
   cache  |-> WriteFile(c, CachePath(date, area), <<>>),
   reqs   |-> <<Url(date, area)>>,
   writes |-> <<CachePath(date, area)>>,
   got    |-> <<resp>>]

\* variant: the failure is swallowed and an empty series returned
FetchFailReturnsEmpty(c, date, area, resp) ==
  [arg |-> date, raised |-> FALSE, status |-> 0,
   value  |-> <<>>,
   cache  |-> c,
   reqs   |-> <<Url(date, area)>>,
   writes |-> <<>>,
   got    |-> <<resp>>]

\* raise Exception(f"Failed to fetch data: {response.status_code}")
FetchFail(c, date, area, resp) ==
  [arg |-> date, raised |-> TRUE, status |-> resp.status_code,
   value  |-> <<>>,
   cache  |-> c,
   reqs   |-> <<Url(date, area)>>,
   writes |-> <<>>,
   got    |-> <<resp>>]

\* the whole function, given the cache c it finds and the answer resp the
\* upstream gives if asked
fetch_electricity_cost(c, date, area, resp) ==
  IF Exists(c, CachePath(date, area)) THEN FetchHit(c, date, area)
  ELSE IF resp.status_code = 200 THEN FetchOk(c, date, area, resp)
  ELSE FetchFail(c, date, area, resp)

-----------------------------------------------------------------------------
(* fetch_electricity_cost_utc *)

\* datetime(date_utc.year, date_utc.month, date_utc.day, tzinfo=pytz.utc)
StartUtc(date_utc) == date_utc * Day

\* variant: the second is not subtracted
EndUtcExclusive(date_utc) == StartUtc(date_utc) + Day

\* start_date_utc + timedelta(days=1) - timedelta(seconds=1)
EndUtc(date_utc) == StartUtc(date_utc) + Day - 1

\* variant: >= on the end comparison
InWindowEndInclusive(cost, start_date_utc, end_date_utc) ==
  /\ ParseUtc(cost.time_end) >= start_date_utc
  /\ ParseUtc(cost.time_start) <= end_date_utc

\* variant: < on the start comparison
InWindowStartStrict(cost, start_date_utc, end_date_utc) ==
  /\ ParseUtc(cost.time_end) > start_date_utc
  /\ ParseUtc(cost.time_start) < end_date_utc

\* the overlap test
InWindow(cost, start_date_utc, end_date_utc) ==
  /\ ParseUtc(cost.time_end) > start_date_utc
  /\ ParseUtc(cost.time_start) <= end_date_utc

\* replace(cost, time_start=..., time_end=...)
ToUtc(cost) ==
  [SEK_per_kWh |-> cost.SEK_per_kWh,
   EUR_per_kWh |-> cost.EUR_per_kWh,
   EXR         |-> cost.EXR,
   time_start  |-> IsoFormat(ParseUtc(cost.time_start)),
   time_end    |-> IsoFormat(ParseUtc(cost.time_end))]

\* variant: cost.time_start = ...; cost.time_end = ... on the element itself
AfterLoopInPlace(costs) ==
  [i \in DOMAIN costs |->
     [SEK_per_kWh |-> costs[i].SEK_per_kWh,
      EUR_per_kWh |-> costs[i].EUR_per_kWh,
      EXR         |-> costs[i].EXR,
      time_start  |-> IsoFormat(ParseUtc(costs[i].time_start)),
      time_end    |-> IsoFormat(ParseUtc(costs[i].time_end))]]

\* the list costs_stockholm as the loop leaves it: replace() copies, the
\* elements are not written to
AfterLoop(costs) == costs

\* the loop building costs_utc
RECURSIVE FilterCosts(_, _, _)
FilterCosts(costs, start_date_utc, end_date_utc) ==
  IF costs = <<>> THEN <<>>
  ELSE LET rest == FilterCosts(Tail(costs), start_date_utc, end_date_utc)
       IN IF InWindow(Head(costs), start_date_utc, end_date_utc)
          THEN <<ToUtc(Head(costs))>> \o rest
          ELSE rest

\* the local dates asked for, in the order of the calls
DatesToFetch(date_utc) ==
  LET sd == LocalDate(StartUtc(date_utc))
      ed == LocalDate(EndUtc(date_utc))
  IN IF sd = ed THEN <<sd>> ELSE <<sd, ed>>

\* variant: the end date is fetched first
PlusEndFirst(c, dates, area, resp1, resp2) ==
  LET f2 == fetch_electricity_cost(c, dates[Len(dates)], area, resp2)
  IN IF f2.raised \/ Len(dates) = 1 THEN <<f2>>
     ELSE <<f2, fetch_electricity_cost(f2.cache, dates[1], area, resp1)>>

\* left + right: left is evaluated first, and right only if left returned
Plus(c, dates, area, resp1, resp2) ==
  LET f1 == fetch_electricity_cost(c, dates[1], area, resp1)
  IN IF f1.raised \/ Len(dates) = 1 THEN <<f1>>
     ELSE <<f1, fetch_electricity_cost(f1.cache, dates[2], area, resp2)>>

RECURSIVE Concat(_)
Concat(ss) == IF ss = <<>> THEN <<>> ELSE Head(ss) \o Concat(Tail(ss))

\* the whole function
fetch_electricity_cost_utc(c, date_utc, area, resp1, resp2) ==
  LET dates   == DatesToFetch(date_utc)
      fs      == Plus(c, dates, area, resp1, resp2)
      n       == Len(fs)
      raised  == fs[n].raised
      costs_stockholm == Concat([i \in 1..n |-> fs[i].value])
  IN [raised  |-> raised,
      status  |-> fs[n].status,
      value   |-> IF raised THEN <<>>
                  ELSE FilterCosts(costs_stockholm, StartUtc(date_utc), EndUtc(date_utc)),
      cache   |-> fs[n].cache,
      fetches |-> [i \in 1..n |-> fs[i].arg],
      fetched |-> [i \in 1..n |-> fs[i].value],
      errors  |-> [i \in 1..n |-> fs[i].status],
      sources |-> IF raised THEN <<>> ELSE AfterLoop(costs_stockholm),
      reqs    |-> Concat([i \in 1..n |-> fs[i].reqs]),
      writes  |-> Concat([i \in 1..n |-> fs[i].writes]),
      got     |-> Concat([i \in 1..n |-> fs[i].got])]

-----------------------------------------------------------------------------
(* Sequential callers: every call runs to completion before the next *)

NoCall ==
  [op |-> "none", date |-> 0, area |-> "SE4", raised |-> FALSE, status |-> 0,
   value |-> <<>>, fetches |-> <<>>, fetched |-> <<>>, errors |-> <<>>,
   sources |-> <<>>, reqs |-> <<>>, writes |-> <<>>, got |-> <<>>]

EmptyCache == [k \in {} |-> <<>>]

Procs == 1..NumProcs

IdleProc == [pc |-> "idle", todo |-> <<>>, area |-> "SE4", data |-> <<>>,
             outcome |-> "none"]

Init ==
  /\ cache = EmptyCache
  /\ trunc = {}
  /\ last = NoCall
  /\ calls = 0
  /\ proc = [p \in Procs |-> IdleProc]

Fetch(date, area) ==
  /\ calls < MaxCalls
  /\ \E resp \in Responses(date) :
     \E r \in {fetch_electricity_cost(cache, date, area, resp)} :
          /\ cache' = r.cache
          /\ last' = [op |-> "fetch", date |-> date, area |-> area,
                      raised |-> r.raised, status |-> r.status,
                      value |-> r.value, fetches |-> <<r.arg>>,
                      fetched |-> <<r.value>>, errors |-> <<r.status>>,
                      sources |-> <<>>, reqs |-> r.reqs,
                      writes |-> r.writes, got |-> r.got]
  /\ calls' = calls + 1
  /\ UNCHANGED <<trunc, proc>>

FetchUtc(date_utc, area) ==
  /\ \E resp1 \in Responses(DatesToFetch(date_utc)[1]) :
     \E resp2 \in Responses(DatesToFetch(date_utc)[Len(DatesToFetch(date_utc))]) :
     \E r \in {fetch_electricity_cost_utc(cache, date_utc, area, resp1, resp2)} :
          /\ cache' = r.cache
          /\ last' = [op |-> "fetch_utc", date |-> date_utc, area |-> area,
                      raised |-> r.raised, status |-> r.status,
                      value |-> r.value, fetches |-> r.fetches,
                      fetched |-> r.fetched, errors |-> r.errors,
                      sources |-> r.sources, reqs |-> r.reqs,
                      writes |-> r.writes, got |-> r.got]
  /\ calls' = calls + 1
  /\ UNCHANGED <<trunc, proc>>

FetchUtcCall(date_utc, area) ==
  /\ calls < MaxCalls
  /\ FetchUtc(date_utc, area)

Next ==
  \/ \E date \in 0..(MaxUtcDay + 1), area \in Areas : Fetch(date, area)
  \/ \E date_utc \in 0..MaxUtcDay, area \in Areas : FetchUtcCall(date_utc, area)

Spec == Init /\ [][Next]_vars

\* one call of fetch_electricity_cost_utc for any UTC date of the year
FetchUtcOnce(date_utc, area) ==
  /\ calls = 0
  /\ FetchUtc(date_utc, area)

NextYear == \E date_utc \in 0..MaxDay, area \in Areas : FetchUtcOnce(date_utc, area)

SpecYear == Init /\ [][NextYear]_vars

-----------------------------------------------------------------------------
(* Concurrent callers: the steps of fetch_electricity_cost interleave.      *)
(* A caller of fetch_electricity_cost_utc runs its fetches one after the    *)
(* other; what it does with the series afterwards touches no shared state.  *)

\* the path the caller p is working on
PathOf(p) == CachePath(Head(proc[p].todo), proc[p].area)

\* the current fetch of p returns: the next fetch of the call starts, or the
\* call is over
Return(p, how) ==
  IF Len(proc[p].todo) > 1
  THEN [proc EXCEPT ![p].pc = "exists", ![p].todo = Tail(@), ![p].data = <<>>]
  ELSE [proc EXCEPT ![p] = [IdleProc EXCEPT !.outcome = how]]

\* the current fetch of p raises: the whole call is over
Raise(p) == [proc EXCEPT ![p] = [IdleProc EXCEPT !.outcome = "raised"]]

\* a caller enters fetch_electricity_cost(date, area), or
\* fetch_electricity_cost_utc, which enters it for its first date
Call(p, dates, area) ==
  /\ proc[p].pc = "idle"
  /\ proc' = [proc EXCEPT ![p] = [pc |-> "exists", todo |-> dates, area |-> area,
                                  data |-> <<>>, outcome |-> "none"]]
  /\ UNCHANGED <<cache, trunc, last, calls>>

\* if os.path.exists(cache_path):
StepExists(p) ==
  /\ proc[p].pc = "exists"
  /\ proc' = [proc EXCEPT ![p].pc = IF Exists(cache, PathOf(p)) THEN "load" ELSE "get"]
  /\ UNCHANGED <<cache, trunc, last, calls>>

\* open(cache_path, 'r'); json.load(f); return [...]
\* (json.load raises on a file another caller has opened and not yet written)
StepLoad(p) ==
  /\ proc[p].pc = "load"
  /\ proc' = IF PathOf(p) \in trunc THEN Raise(p) ELSE Return(p, "hit")
  /\ UNCHANGED <<cache, trunc, last, calls>>

\* response = requests.get(url); if response.status_code == 200: ... else: raise
StepGet(p) ==
  /\ proc[p].pc = "get"
  /\ \E resp \in Responses(Head(proc[p].todo)) :
       proc' = IF resp.status_code = 200
               THEN [proc EXCEPT ![p].pc = "open", ![p].data = resp.body]
               ELSE Raise(p)
  /\ UNCHANGED <<cache, trunc, last, calls>>

\* os.makedirs(..., exist_ok=True); open(cache_path, 'w'): the file exists
\* and is empty
StepOpen(p) ==
  /\ proc[p].pc = "open"
  /\ cache' = WriteFile(cache, PathOf(p), <<>>)
  /\ trunc' = trunc \cup {PathOf(p)}
  /\ proc' = [proc EXCEPT ![p].pc = "dump"]
  /\ UNCHANGED <<last, calls>>

\* json.dump(data, f), the file is closed; return [...]
StepDump(p) ==
  /\ proc[p].pc = "dump"
  /\ cache' = WriteFile(cache, PathOf(p), proc[p].data)
  /\ trunc' = trunc \ {PathOf(p)}
  /\ proc' = Return(p, "filled")
  /\ UNCHANGED <<last, calls>>

\* the local dates and the area the concurrent callers ask for
ConcDates == {0, 1}
ConcArea == "SE4"

NextConc ==
  \E p \in Procs :
    \/ \E d \in ConcDates : Call(p, <<d>>, ConcArea)
    \/ Call(p, DatesToFetch(0), ConcArea)
    \/ StepExists(p)
    \/ StepLoad(p)
    \/ StepGet(p)
    \/ StepOpen(p)
    \/ StepDump(p)

SpecConc == Init /\ [][NextConc]_vars

-----------------------------------------------------------------------------
(* Properties *)

\* the cache entry of (date, area) and the request addressed by it
KeyOf(date, area) == <<"cache", date, area>>
RequestFor(date, area) == <<"prices", date, area>>

\* the instant an ISO-8601 string denotes
Instant(ts) == ts.wall - ts.off

SamePrices(x, y) ==
  /\ x.SEK_per_kWh = y.SEK_per_kWh
  /\ x.EUR_per_kWh = y.EUR_per_kWh
  /\ x.EXR = y.EXR

\* C1: a fetch for a key whose cache entry exists returns the series decoded
\* from the entry, issues no upstream request and leaves the cache as it
\* was; a fetch repeated for the key of a fetch that just returned gives the
\* identical series without a request.
C1_CacheHit ==
  [][ /\ (last'.op = "fetch" /\ KeyOf(last'.date, last'.area) \in DOMAIN cache)
         => /\ ~last'.raised
            /\ last'.value = Decode(cache[KeyOf(last'.date, last'.area)])
            /\ last'.reqs = <<>>
            /\ last'.got = <<>>
            /\ last'.writes = <<>>
            /\ cache' = cache
      /\ (/\ last.op = "fetch" /\ ~last.raised /\ last'.op = "fetch"
          /\ last'.date = last.date /\ last'.area = last.area)
         => /\ ~last'.raised
            /\ last'.value = last.value
            /\ last'.reqs = <<>> ]_vars

\* a fetch answered from the cache, right after the fetch that filled it
C1_Witness ==
  /\ last.op = "fetch" /\ ~last.raised /\ last.reqs = <<>>
  /\ Len(last.value) = 24
  /\ calls = 2
  /\ Cardinality(DOMAIN cache) = 1

\* C2: a fetch for a key without cache entry whose upstream answer is not
\* 200 fails with the observed status code, returns no series, has asked
\* upstream exactly once and leaves the cache as it was.
C2_UpstreamFailure ==
  [][ (/\ last'.op = "fetch"
       /\ KeyOf(last'.date, last'.area) \notin DOMAIN cache
       /\ \E i \in DOMAIN last'.got : last'.got[i].status_code # 200)
      => /\ last'.raised
         /\ Len(last'.got) = 1
         /\ last'.status = last'.got[1].status_code
         /\ last'.value = <<>>
         /\ last'.reqs = <<RequestFor(last'.date, last'.area)>>
         /\ last'.writes = <<>>
         /\ cache' = cache ]_vars

\* a failed fetch (status 204, a success code other than 200) with a
\* populated cache left alone
C2_Witness ==
  /\ last.op = "fetch" /\ last.raised /\ last.status = 204
  /\ KeyOf(last.date, last.area) \notin DOMAIN cache
  /\ cache # EmptyCache

\* C3: a fetch for a key without cache entry that upstream answers with 200
\* issues exactly one request, addressed by the key; the body is stored
\* verbatim as the entry of that key, no other entry is created or changed,
\* and the decoded body is returned.
C3_CacheFill ==
  [][ (/\ last'.op = "fetch"
       /\ KeyOf(last'.date, last'.area) \notin DOMAIN cache
       /\ last'.got # <<>>
       /\ last'.got[1].status_code = 200)
      => /\ ~last'.raised
         /\ Len(last'.got) = 1
         /\ last'.reqs = <<RequestFor(last'.date, last'.area)>>
         /\ DOMAIN cache' = DOMAIN cache \cup {KeyOf(last'.date, last'.area)}
         /\ cache'[KeyOf(last'.date, last'.area)] = last'.got[1].body
         /\ \A k \in DOMAIN cache : cache'[k] = cache[k]
         /\ last'.writes = <<KeyOf(last'.date, last'.area)>>
         /\ last'.value = Decode(last'.got[1].body) ]_vars

\* a fetch that filled a second entry beside an existing one
C3_Witness ==
  /\ last.op = "fetch" /\ ~last.raised /\ Len(last.reqs) = 1
  /\ Cardinality(DOMAIN cache) = 2
  /\ KeyOf(last.date, last.area) \in DOMAIN cache
  /\ cache[KeyOf(last.date, last.area)] = last.got[1].body
  /\ Len(last.value) = 24

\* the hourly series of local 2024-01-01 and 2024-01-02, offset +01:00
HourlyJan(d) ==
  [k \in 1..24 |->
     [SEK_per_kWh |-> 1000 + 30 * d + k, EUR_per_kWh |-> 100 + k, EXR |-> 11,
      time_start  |-> [wall |-> d * 86400 + (k - 1) * 3600, off |-> 3600],
      time_end    |-> [wall |-> d * 86400 + k * 3600, off |-> 3600]]]

C4_Scenario ==
  /\ last.op = "fetch_utc" /\ last.date = 0 /\ ~last.raised
  /\ last.fetched = <<HourlyJan(0), HourlyJan(1)>>

\* C4: requesting UTC day 2024-01-01 with hourly +01:00 series for local
\* 2024-01-01 and 2024-01-02 fetches exactly these two dates and returns 24
\* one-hour intervals, the first 00:00Z-01:00Z (local 01:00-02:00 of
\* 2024-01-01), the last ending 2024-01-02T00:00Z, every UTC hour once.
C4_StraddlingWindow ==
  C4_Scenario =>
    /\ last.fetches = <<0, 1>>
    /\ Len(last.value) = 24
    /\ last.value[1].time_start = [wall |-> 0, off |-> 0]
    /\ last.value[1].time_end = [wall |-> 3600, off |-> 0]
    /\ SamePrices(last.value[1], HourlyJan(0)[2])
    /\ last.value[24].time_end = [wall |-> 86400, off |-> 0]
    /\ \A h \in 0..23 :
         Cardinality({i \in DOMAIN last.value :
                        last.value[i].time_start = [wall |-> h * 3600, off |-> 0]}) = 1
    /\ \A i \in DOMAIN last.value :
         /\ last.value[i].time_end.off = 0
         /\ last.value[i].time_end.wall = last.value[i].time_start.wall + 3600

C4_Witness ==
  /\ C4_Scenario
  /\ Len(last.value) = 24
  /\ last.reqs = <<RequestFor(0, last.area), RequestFor(1, last.area)>>

\* the fetched intervals of the last call, in the order of the fetches
Fetched == Concat(last.fetched)

\* the interval x is among the returned ones
Returned(x) ==
  \E j \in DOMAIN last.value :
    /\ SamePrices(last.value[j], x)
    /\ Instant(last.value[j].time_start) = Instant(x.time_start)
    /\ Instant(last.value[j].time_end) = Instant(x.time_end)

\* C5: a fetched interval is returned if and only if its end is strictly
\* after midnight of the requested UTC day and its start is not after that
\* midnight + 24h - 1s.
C5_BoundaryInclusivity ==
  (last.op = "fetch_utc" /\ ~last.raised) =>
    \A src \in {Fetched} : \A i \in DOMAIN src :
      Returned(src[i]) <=>
        /\ Instant(src[i].time_end) > last.date * 86400
        /\ Instant(src[i].time_start) <= last.date * 86400 + 86399

\* a call over a DST date that fetched an interval ending at the start of
\* the window (dropped) and one starting at its last second (kept)
C5_Witness ==
  /\ last.op = "fetch_utc" /\ ~last.raised /\ last.date = 90
  /\ \E i \in DOMAIN Fetched :
       /\ Instant(Fetched[i].time_end) = last.date * 86400
       /\ ~Returned(Fetched[i])
  /\ \E i \in DOMAIN Fetched :
       /\ Instant(Fetched[i].time_start) = last.date * 86400 + 86399
       /\ Returned(Fetched[i])

\* the local dates of the first and of the last second of the requested day
StartLocalDate == LocalDate(last.date * 86400)
EndLocalDate == LocalDate(last.date * 86400 + 86399)

\* y is x with its timestamps expressed in UTC
Corresponds(y, x) ==
  /\ SamePrices(y, x)
  /\ Instant(y.time_start) = Instant(x.time_start)
  /\ Instant(y.time_end) = Instant(x.time_end)

\* v is, element by element and in order, a selection of the elements of src
RECURSIVE InOrder(_, _)
InOrder(v, src) ==
  IF v = <<>> THEN TRUE
  ELSE IF src = <<>> THEN FALSE
  ELSE IF Corresponds(Head(v), Head(src)) THEN InOrder(Tail(v), Tail(src))
  ELSE InOrder(v, Tail(src))

\* the first underlying fetch asked upstream and was refused
FirstFetchFailed ==
  /\ last.reqs # <<>>
  /\ last.reqs[1] = RequestFor(StartLocalDate, last.area)
  /\ last.got[1].status_code # 200

\* C6 as stated: one fetch when the two local dates are equal, otherwise
\* exactly two, start date first; the result keeps the order of the
\* concatenation.
C6_FetchCountAsStated ==
  last.op = "fetch_utc" =>
    /\ StartLocalDate = EndLocalDate => last.fetches = <<StartLocalDate>>
    /\ StartLocalDate # EndLocalDate => last.fetches = <<StartLocalDate, EndLocalDate>>
    /\ ~last.raised => InOrder(last.value, Fetched)

\* C6 amended: the fetch of the start date is always made; the fetch of the
\* end date follows it exactly when the dates differ and the first fetch did
\* not fail; nothing else is fetched, and a returned sequence keeps the order
\* of the concatenation.
C6_FetchCountAndOrder ==
  last.op = "fetch_utc" =>
    /\ last.fetches =
         IF StartLocalDate = EndLocalDate \/ FirstFetchFailed
         THEN <<StartLocalDate>>
         ELSE <<StartLocalDate, EndLocalDate>>
    /\ ~last.raised => InOrder(last.value, Fetched)

\* two fetches, start date first, and a non-empty result drawn from both
C6_Witness ==
  /\ last.op = "fetch_utc" /\ ~last.raised
  /\ last.fetches = <<last.date, last.date + 1>>
  /\ Len(last.fetched[1]) = 24 /\ Len(last.fetched[2]) = 24
  /\ Len(last.value) = 24
  /\ InOrder(last.value, Fetched)

\* C8: when an underlying fetch is refused by upstream, the whole call fails
\* with that status code and returns no series, whatever the other fetch
\* did; the refused request is the last one made.
C8_NoPartialResult ==
  (last.op = "fetch_utc" /\ \E i \in DOMAIN last.got : last.got[i].status_code # 200)
  => /\ last.raised
     /\ last.value = <<>>
     /\ last.status = last.got[Len(last.got)].status_code
     /\ last.status # 200
     /\ \A i \in 1..(Len(last.got) - 1) : last.got[i].status_code = 200

\* the second fetch fails after the first has succeeded and filled the cache
C8_Witness ==
  /\ last.op = "fetch_utc" /\ last.raised
  /\ Len(last.got) = 2
  /\ last.got[1].status_code = 200 /\ Len(last.got[1].body) = 24
  /\ last.got[2].status_code = 404
  /\ last.status = 404
  /\ KeyOf(last.fetches[1], last.area) \in DOMAIN cache

\* the series the underlying fetches returned, as the cache holds them
FromCache ==
  Concat([i \in DOMAIN last.fetches |->
            Decode(cache[KeyOf(last.fetches[i], last.area)])])

\* C9: every returned interval has the three price fields of a fetched
\* interval and UTC-stamped start and end denoting the same instants, and
\* the fetched intervals are, after the call, what was fetched.
C9_PricesPreserved ==
  (last.op = "fetch_utc" /\ ~last.raised) =>
    \A src \in {FromCache} :
      /\ \A j \in DOMAIN last.value :
           /\ last.value[j].time_start.off = 0
           /\ last.value[j].time_end.off = 0
           /\ \E i \in DOMAIN src : Corresponds(last.value[j], src[i])
      /\ last.sources = src

\* a summer call: returned stamps differ from the +02:00 stamps fetched
C9_Witness ==
  /\ last.op = "fetch_utc" /\ ~last.raised /\ last.date = 200
  /\ Len(last.value) = 24
  /\ \E i \in DOMAIN last.sources :
       /\ Corresponds(last.value[1], last.sources[i])
       /\ last.sources[i].time_start.off = 7200
       /\ last.value[1].time_start # last.sources[i].time_start
       /\ last.value[1].SEK_per_kWh = 1000 + i

\* s is a contiguous hourly cover of local date d
IsHourlyCover(s, d) ==
  /\ s # <<>>
  /\ Instant(s[1].time_start) = LocalMidnight(d)
  /\ Instant(s[Len(s)].time_end) = LocalMidnight(d + 1)
  /\ \A k \in DOMAIN s : Instant(s[k].time_end) = Instant(s[k].time_start) + 3600
  /\ \A k \in 1..(Len(s) - 1) : Instant(s[k + 1].time_start) = Instant(s[k].time_end)

C10_Hypothesis ==
  /\ last.op = "fetch_utc" /\ ~last.raised
  /\ \A i \in DOMAIN last.fetched : IsHourlyCover(last.fetched[i], last.fetches[i])

\* C10: for every UTC date, the DST dates included, when each fetched series
\* is a contiguous hourly cover of its local day, two fetches are made and
\* the result is the 24 hourly intervals starting in [startUtc, startUtc+24h),
\* each once, contiguous and in order.
C10_NoDropNoDuplicate ==
  C10_Hypothesis =>
    /\ Len(last.fetches) = 2
    /\ Len(last.value) = 24
    /\ \A j \in 1..24 :
         /\ j \in DOMAIN last.value
         /\ last.value[j].time_start = [wall |-> last.date * 86400 + (j - 1) * 3600, off |-> 0]
         /\ last.value[j].time_end = [wall |-> last.date * 86400 + j * 3600, off |-> 0]
    /\ \A src \in {Fetched} : \A i \in DOMAIN src :
         Returned(src[i]) <=>
           /\ last.date * 86400 <= Instant(src[i].time_start)
           /\ Instant(src[i].time_start) < last.date * 86400 + 86400

\* the autumn transition: a 25-hour local day was fetched
C10_Witness ==
  /\ C10_Hypothesis
  /\ last.date = 300
  /\ Len(last.fetched[1]) = 25
  /\ Len(last.value) = 24

\* the spring transition: a 23-hour local day was fetched
C10_WitnessSpring ==
  /\ C10_Hypothesis
  /\ last.date = 90
  /\ Len(last.fetched[1]) = 23
  /\ Len(last.value) = 24

\* C7 as stated: an entry, once written, is never changed, rewritten or
\* removed by any later step of any caller.
C7_ImmutableAsStated ==
  [][ \A k \in DOMAIN cache :
        k \notin trunc =>
          /\ k \in DOMAIN cache'
          /\ cache'[k] = cache[k]
          /\ k \notin trunc' ]_vars

\* p's step is a write to the entry k by a caller that had found k missing
WriteOf(p, k) ==
  /\ proc[p].pc \in {"open", "dump"}
  /\ CachePath(Head(proc[p].todo), proc[p].area) = k
  /\ proc'[p] # proc[p]

\* C7 amended: no entry is ever removed; a caller goes on to ask upstream
\* (and then to write) only if its key has no entry when it checks; and an
\* entry changes only by the write of such a caller.  So callers running one
\* after another never change an entry, while a caller that checked before
\* the entry was written rewrites it.
C7_ChangedOnlyByEarlierMiss ==
  [][ /\ \A k \in DOMAIN cache : k \in DOMAIN cache'
      /\ \A p \in Procs :
           (proc[p].pc = "exists" /\ proc'[p].pc = "get")
             => CachePath(Head(proc[p].todo), proc[p].area) \notin DOMAIN cache
      /\ \A p \in Procs :
           (proc[p].pc # "get" /\ proc[p].pc # "open") => proc'[p].pc # "open"
      /\ \A p \in Procs :
           (proc[p].pc = "get" /\ proc'[p].pc = "open") => proc'[p].todo = proc[p].todo
      /\ \A k \in DOMAIN cache' :
           (k \notin DOMAIN cache \/ cache'[k] # cache[k] \/ (k \in trunc) # (k \in trunc'))
             => \E p \in Procs : WriteOf(p, k) ]_vars

\* one caller has filled an entry and another, calling afterwards, has read
\* it from the cache, and no write is pending
C7_Witness ==
  /\ proc[1].outcome = "filled" /\ proc[1].pc = "idle"
  /\ proc[2].outcome = "hit" /\ proc[2].pc = "idle"
  /\ DOMAIN cache # {}
  /\ trunc = {}

====
